---- MODULE Spec2Model ----
(***************************************************************************)
(* Model of the std score calculator (src/src/main.rs): the roster store   *)
(* AppState (file_order, per_file, all_people, status), the table parser   *)
(* parse_people_from_html, AppState::add_file and AppState::clear, the     *)
(* drop handler of StdScoreApp::update, and the averaging and ranking of   *)
(* draw_table with compute_std_raw_for.  Scores are f32 values and are     *)
(* computed with f32 rounding, division by zero and NaN as the code does.  *)
(***************************************************************************)
EXTENDS Integers, Sequences, FiniteSets, TLC

(***************************************************************************)
(* Bounds of the model.                                                    *)
(***************************************************************************)
\* data rows (after the header row) of a document
MaxRows == 2
\* the score cells of the store sessions hold 0 .. MaxScore
MaxScore == 2
\* the score cells of the ranking sessions hold 1 .. MaxRankScore
MaxRankScore == 3

(***************************************************************************)
(* f32 arithmetic.  A finite non-negative f32 is m * 2^e with m = 0 or     *)
(* 2^23 <= m < 2^24 (one representation per value); the other values that  *)
(* the program can produce from non-negative scores are +infinity and NaN. *)
(* The exponent range of f32 is not reached by the bounded scores.         *)
(***************************************************************************)
F32Nan == [k |-> "nan", m |-> 0, e |-> 0]

F32Inf == [k |-> "inf", m |-> 0, e |-> 0]

F32Fin(m, e) == [k |-> "fin", m |-> m, e |-> e]

F32Zero == F32Fin(0, 0)

\* the number of significant bits of 0 <= M < 2^31
BitLen(M) ==
    IF M = 0 THEN 0
    ELSE CHOOSE n \in 1..31 : 2^(n - 1) <= M /\ (n = 31 \/ M < 2^n)

\* M * 2^e rounded to 24 significant bits, ties to even (the IEEE default)
F32Round(M, e) ==
    IF M = 0 THEN F32Zero
    ELSE LET k == BitLen(M) - 24 IN
         IF k <= 0 THEN F32Fin(M * 2^(0 - k), e + k)
         ELSE LET q    == M \div 2^k
                  r    == M % 2^k
                  half == 2^(k - 1)
                  up   == r > half \/ (r = half /\ q % 2 = 1)
                  q1   == IF up THEN q + 1 ELSE q
              IN IF q1 = 2^24 THEN F32Fin(2^23, e + k + 1)
                 ELSE F32Fin(q1, e + k)

\* `n as f32` and the parse of a short decimal integer: exact
F32FromInt(n) == F32Round(n, 0)

\* 5 * n more quotient bits of r / d by long division, five bits a step
\* (r < d < 2^24, so 32 * r stays below 2^31):
\* <<quotient, remainder>>
RECURSIVE LongDiv(_, _, _, _)
LongDiv(r, d, n, q) ==
    IF n = 0 THEN <<q, r>>
    ELSE LongDiv((32 * r) % d, d, n - 1, 32 * q + ((32 * r) \div d))

\* a / b in f32
F32Div(a, b) ==
    IF a.k = "nan" \/ b.k = "nan" THEN F32Nan
    ELSE IF a.k = "inf" THEN (IF b.k = "inf" THEN F32Nan ELSE F32Inf)
    ELSE IF b.k = "inf" THEN F32Zero
    ELSE IF b.m = 0 THEN (IF a.m = 0 THEN F32Nan ELSE F32Inf)
    ELSE IF a.m = 0 THEN F32Zero
    ELSE LET qr == LongDiv(a.m % b.m, b.m, 5, a.m \div b.m)
             sticky == IF qr[2] = 0 THEN 0 ELSE 1
         IN F32Round(2 * qr[1] + sticky, a.e - b.e - 26)

\* the number of trailing zero bits of m > 0
TrailingZeros(m) == CHOOSE z \in 0..30 : m % 2^z = 0 /\ m % 2^(z + 1) # 0

\* a * b in f32, for a factor b of few significant bits (the code multiplies
\* by the literal 100.0 only, which is 25 * 2^2)
F32Mul(a, b) ==
    IF a.k = "nan" \/ b.k = "nan" THEN F32Nan
    ELSE IF a.k = "inf" \/ b.k = "inf"
         THEN (IF (a.k = "fin" /\ a.m = 0) \/ (b.k = "fin" /\ b.m = 0)
               THEN F32Nan ELSE F32Inf)
    ELSE IF a.m = 0 \/ b.m = 0 THEN F32Zero
    ELSE LET z == TrailingZeros(b.m)
         IN F32Round(a.m * (b.m \div 2^z), a.e + b.e + z)

\* m shifted right by d bits, the bits shifted out or-ed into the last bit
ShiftRightSticky(m, d) ==
    (m \div 2^d) + (IF m % 2^d # 0 /\ (m \div 2^d) % 2 = 0 THEN 1 ELSE 0)

\* a + b in f32 (guard, round and sticky bits)
F32Add(a, b) ==
    IF a.k = "nan" \/ b.k = "nan" THEN F32Nan
    ELSE IF a.k = "inf" \/ b.k = "inf" THEN F32Inf
    ELSE IF a.m = 0 THEN b
    ELSE IF b.m = 0 THEN a
    ELSE LET hi == IF a.e >= b.e THEN a ELSE b
             lo == IF a.e >= b.e THEN b ELSE a
             d  == hi.e - lo.e
         IN IF d > 26 THEN hi
            ELSE F32Round(hi.m * 8 + ShiftRightSticky(lo.m * 8, d), hi.e - 3)

\* a < b; FALSE when either is NaN
F32Less(a, b) ==
    /\ a.k = "fin"
    /\ \/ b.k = "inf"
       \/ /\ b.k = "fin"
          /\ \/ (a.m = 0 /\ b.m # 0)
             \/ (a.m # 0 /\ b.m # 0 /\ (a.e < b.e \/ (a.e = b.e /\ a.m < b.m)))

\* a.partial_cmp(b): "Less", "Equal", "Greater", or "None" when unordered
partial_cmp(a, b) ==
    IF a.k = "nan" \/ b.k = "nan" THEN "None"
    ELSE IF F32Less(a, b) THEN "Less"
    ELSE IF F32Less(b, a) THEN "Greater"
    ELSE "Equal"

\* the function f, enumerated once into a table by the comparison (the
\* value is f either way)
Tabulated(f) == IF f = f THEN f ELSE f

(***************************************************************************)
(* Strings.  TLA+ has no order and no case mapping on strings, so both are *)
(* given on the names that occur in the bounded documents: NameOrder lists *)
(* them in the order of Rust's Ord for String (byte-wise, so upper case    *)
(* before lower case), which is the iteration order of BTreeSet<String>.   *)
(* "CQYC-Wang" stands for the replacement name of REPLACE_NAME, which is   *)
(* written in CJK characters in the source.                                *)
(***************************************************************************)
NameOrder == <<"Alice", "Bob", "CQYC-Wang", "STD", "cqyc-WHT", "std">>

NameIndex(s) == CHOOSE i \in 1..Len(NameOrder) : NameOrder[i] = s

\* String's `<`
StrLess(a, b) == NameIndex(a) < NameIndex(b)

\* str::to_lowercase
to_lowercase(s) ==
    CASE s = "Alice"     -> "alice"
      [] s = "Bob"       -> "bob"
      [] s = "CQYC-Wang" -> "cqyc-wang"
      [] s = "STD"       -> "std"
      [] s = "cqyc-WHT"  -> "cqyc-wht"
      [] OTHER           -> s

\* REPLACE_NAME.get(key): the replacement, or "" for None
REPLACE_NAME(key) == IF key = "cqyc-wht" THEN "CQYC-Wang" ELSE ""

(***************************************************************************)
(* Documents.  A document is what parse_people_from_html reads of it:      *)
(* whether the bytes are UTF-8, whether <body> has a third <p>, whether    *)
(* that <p> holds a <table>, whether the table has a first (header) row,   *)
(* and the rows after it.  A row is its number of <td> cells, the trimmed  *)
(* text of its name cell and the first number in its score cell if any.    *)
(***************************************************************************)
Row(tds, name, hasNum, score) ==
    [tds |-> tds, name |-> name, hasNum |-> hasNum, score |-> score]

Doc(utf8, p3, table, header, rows) ==
    [utf8 |-> utf8, p3 |-> p3, table |-> table, header |-> header, rows |-> rows]

\* documents whose structure is found, with k rows of the given ones for
\* each k of the given lengths
TableDocs(rows, lengths) ==
    {Doc(TRUE, TRUE, TRUE, TRUE, rs) : rs \in UNION {[1..k -> rows] : k \in lengths}}

\* documents that are not UTF-8, have no third <p>, no <table>, no row at all
BrokenDocs ==
    { Doc(FALSE, TRUE, TRUE, TRUE, <<>>), Doc(TRUE, FALSE, TRUE, TRUE, <<>>),
      Doc(TRUE, TRUE, FALSE, TRUE, <<>>), Doc(TRUE, TRUE, TRUE, FALSE, <<>>) }

\* the store sessions: two file names; a roster table has up to MaxRows rows
\* with scores of 0 .. MaxScore, a row named std being its last row; the
\* other documents are a table with a name that REPLACE_NAME replaces, the
\* broken ones, and the tables with a row of two cells, a row with an empty
\* name or a row whose score cell has no number
Labels == {"a.html", "b.html"}

Names == {"Alice", "std"}

Rows == { Row(3, n, TRUE, s) : n \in Names, s \in 0..MaxScore }

BadRows ==
    { Row(2, "Alice", TRUE, 1), Row(3, "", TRUE, 1), Row(3, "Alice", FALSE, 0) }

StdLast(rows) == \A i \in 1..(Len(rows) - 1) : rows[i].name # "std"

RosterDocs == {html \in TableDocs(Rows, 0..MaxRows) : StdLast(html.rows)}

AliasDocs == { Doc(TRUE, TRUE, TRUE, TRUE, <<Row(3, "cqyc-WHT", TRUE, 1)>>) }

\* a bad row alone, before a row that parses, and after one
BadRowDocs ==
    { Doc(TRUE, TRUE, TRUE, TRUE, rows) :
        rows \in UNION { { <<bad>>, <<bad, Row(3, "Alice", TRUE, 1)>>,
                           <<Row(3, "Alice", TRUE, 1), bad>> } : bad \in BadRows } }

Docs == BrokenDocs \cup RosterDocs \cup AliasDocs \cup BadRowDocs

\* the ranking sessions: up to three files dropped one after the other, each
\* a well-formed table of 1 .. MaxRows rows that parse
RankLabels == <<"1.html", "2.html", "3.html">>

RankNames == {"Alice", "Bob"}

RankRows == { Row(3, n, TRUE, s) : n \in RankNames, s \in 1..MaxRankScore }

RankDocs == TableDocs(RankRows, 1..MaxRows)

(***************************************************************************)
(* parse_people_from_html                                                  *)
(***************************************************************************)
PersonEntry(name, raw_score) == [name |-> name, raw_score |-> raw_score]

Ok(people) == [ok |-> TRUE, people |-> people, err |-> ""]

Err(msg) == [ok |-> FALSE, people |-> <<>>, err |-> msg]

\* the name pushed for a row: the replacement if REPLACE_NAME has one
ParsedName(name) ==
    IF REPLACE_NAME(to_lowercase(name)) # "" THEN REPLACE_NAME(to_lowercase(name))
    ELSE name

\* the loop over the rows after the header, from row i on
RECURSIVE ParseRows(_, _, _)
ParseRows(rows, i, people) ==
    IF i > Len(rows)
    THEN (IF people = <<>> THEN Err("No one was parsed from the table")
          ELSE Ok(people))
    ELSE IF rows[i].tds < 3 THEN ParseRows(rows, i + 1, people)
    ELSE IF rows[i].name = "" THEN ParseRows(rows, i + 1, people)
    ELSE IF ~rows[i].hasNum
         THEN Err("Unable to parse number in total score column (name: "
                  \o rows[i].name \o ")")
    ELSE ParseRows(rows, i + 1,
             Append(people, PersonEntry(ParsedName(rows[i].name),
                                        F32FromInt(rows[i].score))))

ParseDocument(html) ==
    IF ~html.p3 THEN Err("The third <p> under <body> was not found")
    ELSE IF ~html.table THEN Err("<table> not found in 3rd <p>")
    ELSE IF ~html.header THEN Err("The table has no data rows")
    ELSE ParseRows(html.rows, 1, <<>>)

\* ParseDocument of the bounded documents, evaluated once
ParseTable == Tabulated([html \in Docs \cup RankDocs |-> ParseDocument(html)])

parse_people_from_html(html) == ParseTable[html]

(***************************************************************************)
(* The state: the fields of AppState that the pipeline uses (the display   *)
(* precision is a pass-through value and is left out); ret, the last       *)
(* add_file call as its caller sees it: how it ended ("Ok", "Err", or      *)
(* "panic") and, unless it ended in Err, its label and the rows parsed     *)
(* for it; whether the process has panicked; and the rows of the table     *)
(* drawn last.                                                             *)
(***************************************************************************)
VARIABLES file_order, per_file, all_people, status, ret, crashed, sorted_people

vars == <<file_order, per_file, all_people, status, ret, crashed, sorted_people>>

store == <<file_order, per_file, all_people>>

FileResult(people, highest_non_std) ==
    [people |-> people, highest_non_std |-> highest_non_std]

\* BTreeMap::new()
EmptyMap == [l \in {} |-> FileResult(<<>>, F32Zero)]

(***************************************************************************)
(* AppState::add_file                                                      *)
(***************************************************************************)
\* fault variant of NonStd: no filter, the std rows count for the maximum
AllRows(parsed) == parsed

\* .filter(|p| p.name.to_lowercase() != "std")
NonStd(parsed) == SelectSeq(parsed, LAMBDA p : to_lowercase(p.name) # "std")

\* Iterator::max_by with |a, b| a.partial_cmp(b).unwrap(): folds from the
\* left and keeps the later of two equal elements; entries[i..] into acc.
\* A raw score is parsed from digits and is never NaN, so this unwrap does
\* not panic.
RECURSIVE max_by(_, _, _)
max_by(entries, i, acc) ==
    IF i > Len(entries) THEN acc
    ELSE max_by(entries, i + 1,
                IF partial_cmp(acc, entries[i].raw_score) = "Greater" THEN acc
                ELSE entries[i].raw_score)

\* the highest raw score of the rows not named std: None for no such row
Highest(parsed) ==
    LET entries == NonStd(parsed)
    IN IF entries = <<>> THEN [some |-> FALSE, v |-> F32Zero]
       ELSE [some |-> TRUE, v |-> max_by(entries, 2, entries[1].raw_score)]

\* fault variant of PushLabel: the push without the contains_key test
PushAlways(order, files, label) == Append(order, label)

\* if !self.per_file.contains_key(&label) { self.file_order.push(label) }
PushLabel(order, files, label) ==
    IF label \notin DOMAIN files THEN Append(order, label) ELSE order

\* self.all_people.extend(parsed.iter().map(|p| p.name.clone()))
ExtendPeople(people, parsed) == people \cup {parsed[i].name : i \in 1..Len(parsed)}

\* fault variant of InsertFile: entry(label).or_insert(result), which keeps
\* the result stored before
InsertIfAbsent(files, label, result) ==
    [l \in DOMAIN files \cup {label} |-> IF l \in DOMAIN files THEN files[l] ELSE result]

\* self.per_file.insert(label, result)
InsertFile(files, label, result) ==
    [l \in DOMAIN files \cup {label} |-> IF l = label THEN result ELSE files[l]]

\* what add_file returns and the fields it leaves; kind is "Ok", "Err" (with
\* the context it prints) or "panic" (the unwrap of None at line 58)
Outcome(kind, context, order, files, people) ==
    [kind |-> kind, context |-> context,
     file_order |-> order, per_file |-> files, all_people |-> people]

\* fault variant of StoreParsed: the std rows are dropped before the store
StoreFiltered(label, parsed) ==
    LET highest == Highest(parsed) IN
    IF ~highest.some
    THEN Outcome("panic", "", file_order, per_file, all_people)
    ELSE Outcome("Ok", "",
                 PushLabel(file_order, per_file, label),
                 InsertFile(per_file, label, FileResult(NonStd(parsed), highest.v)),
                 ExtendPeople(all_people, NonStd(parsed)))

\* the lines after the parse
StoreParsed(label, parsed) ==
    LET highest == Highest(parsed) IN
    IF ~highest.some
    THEN Outcome("panic", "", file_order, per_file, all_people)
    ELSE Outcome("Ok", "",
                 PushLabel(file_order, per_file, label),
                 InsertFile(per_file, label, FileResult(parsed, highest.v)),
                 ExtendPeople(all_people, parsed))

\* fault variant of add_file: the label is pushed before the parse
add_file_push_first(label, bytes) ==
    IF ~bytes.utf8
    THEN Outcome("Err", "The file is not UTF-8 encoded",
                 file_order, per_file, all_people)
    ELSE IF ~parse_people_from_html(bytes).ok
    THEN Outcome("Err", "Failed to parse HTML",
                 PushLabel(file_order, per_file, label), per_file, all_people)
    ELSE StoreParsed(label, parse_people_from_html(bytes).people)

add_file(label, bytes) ==
    IF ~bytes.utf8
    THEN Outcome("Err", "The file is not UTF-8 encoded",
                 file_order, per_file, all_people)
    ELSE IF ~parse_people_from_html(bytes).ok
    THEN Outcome("Err", "Failed to parse HTML", file_order, per_file, all_people)
    ELSE StoreParsed(label, parse_people_from_html(bytes).people)

(***************************************************************************)
(* compute_std_raw_for and draw_table.  The f32 results on the values that *)
(* the bounded scores lead to are evaluated once, into tables.             *)
(***************************************************************************)
\* fr.people.iter().find(|p| p.name == name): the index of the first entry
\* of that name, 0 for None
FindPerson(people, name) ==
    IF \E i \in 1..Len(people) : people[i].name = name
    THEN CHOOSE i \in 1..Len(people) :
            /\ people[i].name = name
            /\ \A j \in 1..(i - 1) : people[j].name # name
    ELSE 0

Hundred == F32FromInt(100)

\* (raw / fr.highest_non_std) * 100.0
StdScore(raw, highest_non_std) == F32Mul(F32Div(raw, highest_non_std), Hundred)

\* the raw scores of the bounded documents
ScoreValues ==
    {F32FromInt(n) : n \in 0..(IF MaxScore > MaxRankScore THEN MaxScore ELSE MaxRankScore)}

StdScoreTable == Tabulated([p \in ScoreValues \X ScoreValues |-> StdScore(p[1], p[2])])

StdValues == {StdScoreTable[p] : p \in DOMAIN StdScoreTable}

\* std_sum before the last file of a session of Len(RankLabels) files
PartialSums ==
    {F32Zero} \cup StdValues \cup {F32Add(a, b) : a \in StdValues, b \in StdValues}

\* std_sum += s
AddTable == Tabulated([p \in PartialSums \X StdValues |-> F32Add(p[1], p[2])])

\* std_sum / (std_cnt as f32)
MeanTable ==
    Tabulated([p \in (PartialSums \cup {AddTable[q] : q \in DOMAIN AddTable})
                      \X (1..Len(RankLabels)) |->
        F32Div(p[1], F32FromInt(p[2]))])

\* Some((std_score, raw)), or None for a file not stored or a name not in it
compute_std_raw_for(files, file, name) ==
    IF file \notin DOMAIN files THEN [some |-> FALSE, std |-> F32Zero, raw |-> F32Zero]
    ELSE LET i == FindPerson(files[file].people, name) IN
         IF i = 0 THEN [some |-> FALSE, std |-> F32Zero, raw |-> F32Zero]
         ELSE LET raw == files[file].people[i].raw_score
                  top == files[file].highest_non_std
              IN [some |-> TRUE,
                  std  |-> StdScoreTable[<<raw, top>>],
                  raw  |-> raw]

\* std_sum += s
AddScore(std_sum, s) ==
    AddTable[<<std_sum, s>>]

\* std_cnt += 1
CountFile(std_cnt) == std_cnt + 1

\* fault variant of SumLoop: a file without the name is counted too
RECURSIVE SumLoopAll(_, _, _, _, _, _)
SumLoopAll(order, files, name, i, std_sum, std_cnt) ==
    IF i > Len(order) THEN <<std_sum, std_cnt>>
    ELSE LET c == compute_std_raw_for(files, order[i], name) IN
         IF c.some
         THEN SumLoopAll(order, files, name, i + 1, AddScore(std_sum, c.std),
                         CountFile(std_cnt))
         ELSE SumLoopAll(order, files, name, i + 1, std_sum, CountFile(std_cnt))

\* the loop `for file in &state.file_order` from file i on:
\* <<std_sum, std_cnt>>
RECURSIVE SumLoop(_, _, _, _, _, _)
SumLoop(order, files, name, i, std_sum, std_cnt) ==
    IF i > Len(order) THEN <<std_sum, std_cnt>>
    ELSE LET c == compute_std_raw_for(files, order[i], name) IN
         IF c.some
         THEN SumLoop(order, files, name, i + 1, AddScore(std_sum, c.std),
                      CountFile(std_cnt))
         ELSE SumLoop(order, files, name, i + 1, std_sum, std_cnt)

\* if std_cnt > 0 { std_sum / (std_cnt as f32) } else { 0.0 }
Mean(std_sum, std_cnt) ==
    IF std_cnt > 0
    THEN MeanTable[<<std_sum, std_cnt>>]
    ELSE F32Zero

\* avg_std of one name
AvgStd(order, files, name) ==
    LET sc == SumLoop(order, files, name, 1, F32Zero, 0) IN Mean(sc[1], sc[2])

\* the iteration of a BTreeSet<String>: ascending
BTreeIter(set) == SelectSeq(NameOrder, LAMBDA name : name \in set)

PersonScore(name, avg_std) == [name |-> name, avg_std |-> avg_std]

\* fault variant of SortCompare: a.avg_std.partial_cmp(&b.avg_std)
AscendingCompare(a, b) == partial_cmp(a.avg_std, b.avg_std)

\* the comparator of sort_by, before its unwrap
SortCompare(a, b) == partial_cmp(b.avg_std, a.avg_std)

\* the slice that a call leaves, or its panic (an unwrap of None)
Sorted(v) == [panic |-> FALSE, v |-> v]

Panic == [panic |-> TRUE, v |-> <<>>]

\* insertion of x after the sorted v[1..j]: x moves in front of the
\* elements it compares Less than
RECURSIVE insert_tail(_, _, _)
insert_tail(v, j, x) ==
    IF j = 0 THEN Sorted(<<x>> \o v)
    ELSE LET c == SortCompare(x, v[j]) IN
         IF c = "None" THEN Panic
         ELSE IF c = "Less" THEN insert_tail(v, j - 1, x)
         ELSE Sorted(SubSeq(v, 1, j) \o <<x>> \o SubSeq(v, j + 1, Len(v)))

\* slice::sort_by: stable; the elements from i on into the sorted prefix
RECURSIVE sort_by(_, _, _)
sort_by(v, i, prefix) ==
    IF i > Len(v) THEN Sorted(prefix)
    ELSE LET r == insert_tail(prefix, Len(prefix), v[i]) IN
         IF r.panic THEN Panic ELSE sort_by(v, i + 1, r.v)

\* sorted_people of draw_table, or the panic of the sort
draw_table(order, files, people) ==
    LET names == BTreeIter(people)
        rows  == [i \in 1..Len(names) |->
                     PersonScore(names[i], AvgStd(order, files, names[i]))]
    IN IF rows = <<>> THEN Sorted(<<>>) ELSE sort_by(rows, 2, <<rows[1]>>)

\* the central panel: the hint for an empty per_file, else the table
CentralPanel(order, files, people) ==
    IF DOMAIN files = {} THEN Sorted(<<>>) ELSE draw_table(order, files, people)

(***************************************************************************)
(* The frames of StdScoreApp::update: one event a frame.                   *)
(***************************************************************************)
NoCall == [kind |-> "none", label |-> "", people |-> <<>>]

Init ==
    /\ file_order = <<>>
    /\ per_file = EmptyMap
    /\ all_people = {}
    /\ status = ""
    /\ ret = NoCall
    /\ crashed = FALSE
    /\ sorted_people = <<>>

\* the Clear button: *self = AppState::new()
Clear ==
    /\ ~crashed
    /\ file_order' = <<>>
    /\ per_file' = EmptyMap
    /\ all_people' = {}
    /\ status' = ""
    /\ ret' = NoCall
    /\ sorted_people' = <<>>
    /\ UNCHANGED crashed

\* a file dropped with its bytes: add_file, the status on Err, then the
\* central panel (r is what add_file returns and leaves, panel what the
\* central panel draws, unless add_file has panicked)
DropFile(label, bytes) ==
    /\ ~crashed
    /\ \E r \in {add_file(label, bytes)} :
       \E panel \in {IF r.kind = "panic" THEN Panic
                     ELSE CentralPanel(r.file_order, r.per_file, r.all_people)} :
          /\ file_order' = r.file_order
          /\ per_file' = r.per_file
          /\ all_people' = r.all_people
          /\ status' = IF r.kind = "Err" THEN "Parsing failed: " \o r.context
                       ELSE status
          /\ ret' = IF r.kind = "Err" THEN [NoCall EXCEPT !.kind = "Err"]
                    ELSE [kind |-> r.kind, label |-> label,
                          people |-> parse_people_from_html(bytes).people]
          /\ crashed' = panel.panic
          /\ sorted_people' = IF r.kind = "panic" THEN sorted_people ELSE panel.v

Next ==
    \/ Clear
    \/ \E label \in Labels, bytes \in Docs : DropFile(label, bytes)

Spec == Init /\ [][Next]_vars

\* a session of files of different names, dropped one after the other
RankNext ==
    \/ Clear
    \/ \E bytes \in RankDocs :
          /\ Len(file_order) < Len(RankLabels)
          /\ DropFile(RankLabels[Len(file_order) + 1], bytes)

RankSpec == Init /\ [][RankNext]_vars

(***************************************************************************)
(* The claims.  Spec is the specification of C1 to C8, RankSpec that of C9 *)
(* and C10.                                                                *)
(***************************************************************************)
IsStd(name) == to_lowercase(name) = "std"

NamesOf(people) == {people[i].name : i \in 1..Len(people)}

RankedNames == {sorted_people[i].name : i \in 1..Len(sorted_people)}

NameSeq(rows) == [i \in 1..Len(rows) |-> rows[i].name]

\* the indices of the rows of a stored file that are not named std
Qualifying(fr) == {i \in 1..Len(fr.people) : ~IsStd(fr.people[i].name)}

\* the files of file_order that have a row of the name, in that order
Present(order, name) ==
    SelectSeq(order, LAMBDA f : name \in NamesOf(per_file[f].people))

\* the f32 sum of the std scores of the name in the first i of the files,
\* added from the left
RECURSIVE SumOf(_, _, _)
SumOf(files, name, i) ==
    IF i = 0 THEN F32Zero
    ELSE F32Add(SumOf(files, name, i - 1),
                compute_std_raw_for(per_file, files[i], name).std)

\* the stores that hold the same files added in another order: per_file and
\* all_people are the same, file_order is any arrangement of its labels
Orders ==
    { [i \in 1..Len(file_order) |-> file_order[p[i]]] :
        p \in Permutations(1..Len(file_order)) }

StatusOfFailure ==
    { "Parsing failed: The file is not UTF-8 encoded",
      "Parsing failed: Failed to parse HTML" }

\* C1: after any sequence of add_file calls (that succeed or fail, with new
\* or repeated labels) and clear calls, no label is twice in file_order and
\* the labels of file_order are exactly the keys of per_file.
C1_LabelsConsistent ==
    /\ \A i, j \in 1..Len(file_order) : i # j => file_order[i] # file_order[j]
    /\ {file_order[i] : i \in 1..Len(file_order)} = DOMAIN per_file

\* C1, witness: two files are stored, an add_file has failed since the last
\* clear, and the last add_file was a successful re-add of the first label.
C1_Witness ==
    /\ ~crashed
    /\ Len(file_order) = 2
    /\ status \in StatusOfFailure
    /\ ret.kind = "Ok"
    /\ ret.label = file_order[1]

\* C2: a successful add_file under a label that is already stored leaves
\* file_order as it is, makes the rows of per_file[label] the rows parsed
\* for the call, and leaves the FileResult of every other label as it is.
C2_ReAddReplaces ==
    [][ (ret'.kind = "Ok" /\ ret'.label \in DOMAIN per_file)
        => /\ file_order' = file_order
           /\ DOMAIN per_file' = DOMAIN per_file
           /\ per_file'[ret'.label].people = ret'.people
           /\ \A l \in DOMAIN per_file \ {ret'.label} : per_file'[l] = per_file[l]
      ]_vars

\* C2, witness: the first of two stored labels was re-added with rows that
\* differ from those of the other label, and no add_file has failed.
C2_Witness ==
    /\ ~crashed
    /\ Len(file_order) = 2
    /\ status = ""
    /\ ret.kind = "Ok"
    /\ ret.label = file_order[1]
    /\ per_file[file_order[1]].people = ret.people
    /\ per_file[file_order[2]].people # ret.people

\* C3, as the specification states it: all_people is the union of the names
\* of the rows of the stored FileResults.
C3_PeopleAreUnion ==
    all_people = UNION {NamesOf(per_file[l].people) : l \in DOMAIN per_file}

C5_FailedAddLeavesStore ==
    /\ \A label \in Labels, bytes \in Docs :
          (~bytes.utf8 \/ ~parse_people_from_html(bytes).ok)
          => LET r == add_file(label, bytes)
             IN /\ r.kind = "Err"
                /\ r.file_order = file_order
                /\ r.per_file = per_file
                /\ r.all_people = all_people
    /\ ret.kind = "Err" => status \in StatusOfFailure

\* C5, witness: the last add_file failed with a file stored before it, whose
\* table is still drawn.
C5_Witness ==
    /\ ret.kind = "Err"
    /\ status \in StatusOfFailure
    /\ Len(file_order) = 1
    /\ sorted_people # <<>>

\* C6, as the specification states it: an add_file of a document that
\* parses to rows that are all named std returns an error, it does not
\* crash.
C6_AllIgnoredIsError ==
    (ret.kind # "none" /\ ret.people # <<>>
       /\ \A i \in 1..Len(ret.people) : IsStd(ret.people[i].name))
    => (ret.kind = "Err" /\ ~crashed)

\* C7, as the specification states it: in a stored file with a
\* highest_non_std of 0 the std score of every name of the file is 0, and
\* the table of a store with such a file is drawn without a panic.
C7_ZeroMaximumScoresZero ==
    \A l \in DOMAIN per_file :
       per_file[l].highest_non_std = F32Zero
       => /\ \A name \in NamesOf(per_file[l].people) :
                compute_std_raw_for(per_file, l, name).std = F32Zero
          /\ ~crashed

\* C8: for every label of per_file, highest_non_std is the maximum of the
\* raw scores of the rows not named std of the document added last under
\* the label with success; the raw scores of the std rows do not count.
C8_HighestIsNonStdMaximum ==
    /\ \A l \in DOMAIN per_file :
          /\ \E i \in Qualifying(per_file[l]) :
                per_file[l].people[i].raw_score = per_file[l].highest_non_std
          /\ \A i \in Qualifying(per_file[l]) :
                ~F32Less(per_file[l].highest_non_std,
                         per_file[l].people[i].raw_score)
    /\ ret.kind = "Ok" => per_file[ret.label].people = ret.people

\* C8, witness: the first label was re-added with a std row above its
\* highest_non_std, and the second file has two rows not named std with
\* different raw scores.
C8_Witness ==
    /\ ~crashed
    /\ Len(file_order) = 2
    /\ ret.kind = "Ok"
    /\ ret.label = file_order[1]
    /\ \E i \in 1..Len(ret.people) :
          /\ IsStd(ret.people[i].name)
          /\ F32Less(per_file[ret.label].highest_non_std, ret.people[i].raw_score)
    /\ \E i, j \in Qualifying(per_file[file_order[2]]) :
          F32Less(per_file[file_order[2]].people[i].raw_score,
                  per_file[file_order[2]].people[j].raw_score)

\* C9, as corrected: avg_std of a name is the f32 mean of its std scores
\* over the files that have a row of it, summed in the order of file_order
\* (a file without the name adds nothing and is not counted); it is the
\* same for every order in which the files were added when the name has a
\* row in at most two of them.
C9_MeanOverPresentFiles ==
    (~crashed /\ file_order # <<>>)
    => \A i \in 1..Len(sorted_people) :
          LET name  == sorted_people[i].name
              files == Present(file_order, name)
          IN /\ sorted_people[i].avg_std =
                   IF files = <<>> THEN F32Zero
                   ELSE F32Div(SumOf(files, name, Len(files)),
                               F32FromInt(Len(files)))
             /\ Len(files) <= 2
                => \A order \in Orders :
                      AvgStd(order, per_file, name) = sorted_people[i].avg_std

\* C9, witness: of three stored files, two have a row of a name, with
\* different std scores, and one has none.
C9_Witness ==
    /\ ~crashed
    /\ Len(file_order) = 3
    /\ \E name \in all_people :
          LET files == Present(file_order, name)
          IN /\ Len(files) = 2
             /\ compute_std_raw_for(per_file, files[1], name).std
                # compute_std_raw_for(per_file, files[2], name).std

\* C9, as the specification states it: avg_std of every name is the same
\* for every order in which the stored files were added.
C9_OrderIndependent ==
    ~crashed
    => \A order \in Orders : \A name \in all_people :
          AvgStd(order, per_file, name) = AvgStd(file_order, per_file, name)

\* C10, as corrected: the ranked list has each name of all_people once, in
\* descending order of avg_std, names of equal avg_std in ascending order;
\* the ranking is the same for every order in which the files were added
\* when no name has a row in more than two of them.
C10_RankedDescending ==
    (~crashed /\ file_order # <<>>)
    => /\ Len(sorted_people) = Cardinality(all_people)
       /\ RankedNames = all_people
       /\ \A i \in 1..(Len(sorted_people) - 1) :
             /\ ~F32Less(sorted_people[i].avg_std, sorted_people[i + 1].avg_std)
             /\ sorted_people[i].avg_std = sorted_people[i + 1].avg_std
                => StrLess(sorted_people[i].name, sorted_people[i + 1].name)
       /\ (\A name \in all_people : Len(Present(file_order, name)) <= 2)
          => \A order \in Orders :
                NameSeq(draw_table(order, per_file, all_people).v)
                = NameSeq(sorted_people)

\* C10, witness: three files are stored and the two rows of the ranked list
\* have the same avg_std.
C10_Witness ==
    /\ ~crashed
    /\ Len(file_order) = 3
    /\ Len(sorted_people) = 2
    /\ sorted_people[1].avg_std = sorted_people[2].avg_std
    /\ \E l \in DOMAIN per_file :
          per_file[l].people[1].raw_score # per_file[l].highest_non_std

\* C10, as the specification states it: the ranking is the same for every
\* order in which the stored files were added.
C10_SameRankingAnyOrder ==
    (~crashed /\ file_order # <<>>)
    => \A order \in Orders :
          NameSeq(draw_table(order, per_file, all_people).v) = NameSeq(sorted_people)

====
